---- MODULE Spec2Model ----
(***************************************************************************)
(* The wasmer host bridge (wasmer-host/src/wasmer_host.rs): a WasmerHost   *)
(* owns one wasm Instance and three integers negotiated at bootstrap       *)
(* (js_rt_ptr, async_rt_ptr, parameter_buffer_ptr).  Every operation       *)
(* writes a request into the instance's linear memory at the buffer        *)
(* offset, calls an export with integer arguments and reads the response   *)
(* back from the same offset.                                              *)
(*                                                                         *)
(* Widths are scaled: an i32/u32 has IntBits bits instead of 32, a usize   *)
(* has twice as many, a byte has ByteBits bits instead of 8.  Linear       *)
(* memory is a sequence of MemSize bytes.                                  *)
(***************************************************************************)
EXTENDS Integers, Sequences, FiniteSets, TLC

\* ------------------------------------------------------------------ bounds
IntBits == 4
MemSize == 9
MaxOps == 2

ByteBits == IntBits \div 2
UsizeBits == 2 * IntBits

\* ------------------------------------------------------- integer conversions
Pow2(k) == 2 ^ k
I32Min == 0 - Pow2(IntBits - 1)
I32Max == Pow2(IntBits - 1) - 1
I32 == I32Min .. I32Max
ByteBase == Pow2(ByteBits)
Byte == 0 .. (ByteBase - 1)

\* `x as i32` for a usize x: keeps the low IntBits bits, reads them as signed.
AsI32(x) ==
    LET m == x % Pow2(IntBits)
    IN  IF m > I32Max THEN m - Pow2(IntBits) ELSE m

\* `x as u32` for an i32 x: same bits, read as unsigned.
AsU32(x) == x % Pow2(IntBits)

\* `x as usize` for an i32 x: sign extension to the wider word.
AsUsize(x) == x % Pow2(UsizeBits)

\* usize addition as the release build computes it (wrapping); the debug
\* build panics on the overflow, the release build on the slice whose end
\* has wrapped below its start: InBounds is false either way.
UsizeAdd(a, b) == (a + b) % Pow2(UsizeBits)

\* ------------------------------------------------------------ byte windows
\* &buffer[start .. end] is a valid slice: otherwise the index operation panics.
InBounds(buffer, start, end) == start <= end /\ end <= Len(buffer)

Window(buffer, start, end) == SubSeq(buffer, start + 1, end)

WriteAt(buffer, start, bytes) ==
    [i \in 1 .. Len(buffer) |->
        IF start < i /\ i <= start + Len(bytes) THEN bytes[i - start] ELSE buffer[i]]

\* ----------------------------------------------------------------- results
NoResult == [kind |-> "none", val |-> <<>>, err |-> "none"]
Ok(v) == [kind |-> "ok", val |-> v, err |-> "none"]
Err(e) == [kind |-> "err", val |-> <<>>, err |-> e]
Panic(e) == [kind |-> "panic", val |-> <<>>, err |-> e]

\* --------------------------------------------------------------- the module
AllExports ==
    {"memory", "new_runtime", "new_async_runtime", "parameter_buffer_ptr",
     "compile_module", "run", "run_module_function"}

\* The modules a runtime name can resolve to: the full one, and one for each
\* missing export.
ExportSets == {AllExports} \cup {AllExports \ {e} : e \in AllExports}

RuntimeNames == {"mod1", "does-not-exist"}
KnownRuntimes == {"mod1"}

\* RuntimeRegistry::get_module(runtime, &store): a module for a known name,
\* an error otherwise.
get_module(runtime) == runtime \in KnownRuntimes

\* The values the three zero-argument exports may return.
JsPtrs == {1, I32Min + 1}
AsyncPtrs == {2}
BufferPtrs == {0, 3, 0 - 1}

NoHandle == [exists |-> FALSE, js_rt_ptr |-> 0, async_rt_ptr |-> 0,
             parameter_buffer_ptr |-> 0]
NoCall == [name |-> "none", args |-> <<>>, seen |-> <<>>]
ZeroMemory == [i \in 1 .. MemSize |-> 0]

VARIABLES
    boot,        \* position of new_wasi_dev: start, module, instance, js, async, ready, failed
    bootResult,  \* how new_wasi_dev ended
    runtime,     \* the runtime name new_wasi_dev was called with
    exports,     \* the exports of the resolved module
    instances,   \* number of Instances created
    instance,    \* the Instance being bootstrapped or owned by the handle (0: none)
    negotiated,  \* what the module returned for the bootstrap calls made so far
    handle,      \* the WasmerHost, once constructed
    mem,         \* the Instance's linear memory
    engine,      \* per script-engine pointer: the texts the engine has run
    lastCall,    \* the last export call made
    numCalls,    \* number of export calls made
    pc,          \* per caller: idle, written, called, panicked
    op,          \* per caller: the operation in progress or last finished
    input,       \* per caller: the argument of that operation as supplied
    params,      \* per caller: the RunModuleFunctionParameters object after the call
    req,         \* per caller: the request bytes the operation wrote
    ret,         \* per caller: the integer the export returned
    result,      \* per caller: the outcome of the last finished operation
    ops,         \* per caller: operations started so far
    entry,       \* the public entry point compile_to_bytecode: its calls
    peer         \* a second, independently bootstrapped WasmerHost

bootVars == <<boot, bootResult, runtime, exports, instances, instance,
              negotiated, handle>>
callerVars == <<pc, op, input, params, req, ret, result, ops>>
pathVars == <<entry, peer>>
vars == <<boot, bootResult, runtime, exports, instances, instance, negotiated,
          handle, mem, engine, lastCall, numCalls,
          pc, op, input, params, req, ret, result, ops, entry, peer>>

Callers == {"a", "b"}

\* ------------------------------------------------------------------ inputs
Text(len, seed) == [i \in 1 .. len |-> (i + seed) % 2]

\* Source texts (valid UTF-8: single-byte characters only): a short one, and
\* one whose length has the top bit of an i32 set and that fits in memory at
\* buffer offset 0 but not at a larger offset.
Sources == {Text(2, 1), Text(Pow2(IntBits - 1), 0)}

\* Caller-supplied RunModuleFunctionParameters: rt is the engine-pointer field.
ParamSet == {[rt |-> 0, function |-> 1], [rt |-> 5, function |-> 0]}
NoParams == [rt |-> 0, function |-> 0]

\* Scaled UTF-8: a byte below half the base is a one-byte character, a byte
\* in the top quarter leads a two-byte character, the rest are continuations.
LeadByte == ByteBase - 1
ContByte == ByteBase \div 2
IsAscii(b) == b < ByteBase \div 2
IsCont(b) == b >= ByteBase \div 2 /\ b < ByteBase - ByteBase \div 4
IsLead(b) == b >= ByteBase - ByteBase \div 4

RECURSIVE Utf8From(_, _)
Utf8From(bytes, i) ==
    IF i > Len(bytes) THEN TRUE
    ELSE IF IsAscii(bytes[i]) THEN Utf8From(bytes, i + 1)
    ELSE IF IsLead(bytes[i]) /\ i < Len(bytes) /\ IsCont(bytes[i + 1])
         THEN Utf8From(bytes, i + 2)
    ELSE FALSE

\* String::from_utf8(bytes).is_ok()
from_utf8(bytes) == Utf8From(bytes, 1)

\* What an export may leave in the buffer, and the integer it may return:
\* the length of what it wrote (text or not), or a value unrelated to it.
GoodText == <<LeadByte, ContByte, 1>>
BadText == <<LeadByte, 1>>
GuestOutcomes ==
    {[trap |-> TRUE, resp |-> <<>>, n |-> 0],
     [trap |-> FALSE, resp |-> GoodText, n |-> Len(GoodText)],
     [trap |-> FALSE, resp |-> BadText, n |-> Len(BadText)],
     [trap |-> FALSE, resp |-> GoodText, n |-> 0 - 1],
     [trap |-> FALSE, resp |-> GoodText, n |-> I32Max]}

\* ------------------------------------------------------------- serialization
\* bincode's encoding of a u32: four bytes, least significant first.
U32LE(v) == [i \in 1 .. 4 |-> (v \div (ByteBase ^ (i - 1))) % ByteBase]

\* bincode::serialize(&parameters): the fields in declaration order.
Serialize(p) == U32LE(p.rt) \o <<p.function>>

\* RunModuleFunctionParameters::set_rt
set_rt(p, rt) == [p EXCEPT !.rt = rt]

\* ------------------------------------------------------------ the guest side
\* Inside the module addresses and lengths are unsigned 32-bit values.
GuestBuf == AsU32(negotiated["parameter_buffer_ptr"])

\* The request the export consumes: len bytes at the module's own buffer
\* address; an access outside linear memory traps.
GuestCanRead(buffer, len) == GuestBuf + AsU32(len) <= Len(buffer)
GuestRead(buffer, len) ==
    IF GuestCanRead(buffer, len)
    THEN Window(buffer, GuestBuf, GuestBuf + AsU32(len))
    ELSE <<>>
GuestCanWrite(buffer, resp) == GuestBuf + Len(resp) <= Len(buffer)

\* The run export: the engine js runs the text and keeps its effects.
GuestRun(eng, js, text) == [eng EXCEPT ![js] = Append(@, text)]

\* ------------------------------------------------------------- buffer access
\* A slice_to_buffer that copies as much of the source as fits.
slice_to_buffer_truncating(h, buffer, source) ==
    LET start == AsUsize(h.parameter_buffer_ptr)
        room == IF start > Len(buffer) THEN 0 ELSE Len(buffer) - start
        fits == IF Len(source) < room THEN Len(source) ELSE room
    IN  IF start > Len(buffer)
        THEN [ok |-> FALSE, buffer |-> buffer]
        ELSE [ok |-> TRUE, buffer |-> WriteAt(buffer, start, SubSeq(source, 1, fits))]

\* WasmerHost::slice_to_buffer: the slice expression panics before anything
\* is copied when the window does not lie inside the memory.
slice_to_buffer(h, buffer, source) ==
    LET start == AsUsize(h.parameter_buffer_ptr)
        end == UsizeAdd(start, Len(source))
    IN  IF InBounds(buffer, start, end)
        THEN [ok |-> TRUE, buffer |-> WriteAt(buffer, start, source)]
        ELSE [ok |-> FALSE, buffer |-> buffer]

\* A read that returns what lies between the offset and the end of memory
\* when the length reaches beyond it.
read_returned_value_clamped(h, buffer, len) ==
    LET start == AsUsize(h.parameter_buffer_ptr)
        end == UsizeAdd(start, AsUsize(len))
    IN  IF InBounds(buffer, start, end)
        THEN [ok |-> TRUE, bytes |-> Window(buffer, start, end)]
        ELSE IF start <= Len(buffer)
        THEN [ok |-> TRUE, bytes |-> Window(buffer, start, Len(buffer))]
        ELSE [ok |-> FALSE, bytes |-> <<>>]

\* WasmerHost::read_returned_value
read_returned_value(h, buffer, len) ==
    LET start == AsUsize(h.parameter_buffer_ptr)
        end == UsizeAdd(start, AsUsize(len))
    IN  IF InBounds(buffer, start, end)
        THEN [ok |-> TRUE, bytes |-> Window(buffer, start, end)]
        ELSE [ok |-> FALSE, bytes |-> <<>>]

\* A copy that starts at the beginning of memory instead of the buffer offset.
CompileReadBackFromZero(h, data, bytecode_size) ==
    LET size == AsUsize(bytecode_size)
        start == AsUsize(h.parameter_buffer_ptr)
        end == UsizeAdd(start, size)
    IN  IF size > Pow2(UsizeBits - 1) - 1 THEN Panic("CapacityOverflow")
        ELSE IF ~InBounds(data, start, end) THEN Panic("MemoryAccessFault")
        ELSE Ok(Window(data, 0, size))

\* compile_to_bytecode's copy of the returned data: Vec::with_capacity panics
\* on a capacity above isize::MAX, the slice expression on a window outside
\* the memory.
CompileReadBack(h, data, bytecode_size) ==
    LET size == AsUsize(bytecode_size)
        start == AsUsize(h.parameter_buffer_ptr)
        end == UsizeAdd(start, size)
    IN  IF size > Pow2(UsizeBits - 1) - 1 THEN Panic("CapacityOverflow")
        ELSE IF ~InBounds(data, start, end) THEN Panic("MemoryAccessFault")
        ELSE Ok(Window(data, start, end))

\* A read that replaces what does not decode instead of failing.
RmfReadBackLossy(h, data, res) ==
    LET r == read_returned_value(h, data, res)
    IN  IF ~r.ok THEN Panic("MemoryAccessFault") ELSE Ok(r.bytes)

\* run_module_function's read of the response and its decoding as text.
RmfReadBack(h, data, res) ==
    LET r == read_returned_value(h, data, res)
    IN  IF ~r.ok THEN Panic("MemoryAccessFault")
        ELSE IF ~from_utf8(r.bytes) THEN Panic("SerializationError")
        ELSE Ok(r.bytes)

\* Arguments for run with the two engine pointers in each other's place.
EvalArgsSwapped(h, js_bytes) == <<h.js_rt_ptr, h.async_rt_ptr, AsI32(Len(js_bytes))>>

\* The arguments of the three exported calls.
CompileArgs(h, source) == <<h.async_rt_ptr, h.js_rt_ptr, AsI32(Len(source))>>
EvalArgs(h, js_bytes) == <<h.async_rt_ptr, h.js_rt_ptr, AsI32(Len(js_bytes))>>
RmfArgs(h, serialized) == <<h.async_rt_ptr, AsI32(Len(serialized))>>

\* Parameters extended with the async engine's pointer.
RmfParametersAsync(h, parameters) == set_rt(parameters, AsU32(h.async_rt_ptr))

\* parameters.set_rt(self.js_rt_ptr as u32)
RmfParameters(h, parameters) == set_rt(parameters, AsU32(h.js_rt_ptr))

\* A request serialized as the caller supplied it.
RmfRequestAsSupplied(h, parameters) == Serialize(parameters)

\* run_module_function's request: set_rt, then serialize.
RmfRequest(h, parameters) == Serialize(RmfParameters(h, parameters))

\* A handle built with the two engine pointers in each other's field.
NewHandleSwapped(js, async, buf) ==
    [exists |-> TRUE, js_rt_ptr |-> async, async_rt_ptr |-> js,
     parameter_buffer_ptr |-> buf]

\* The WasmerHost new_wasi_dev returns.
NewHandle(js, async, buf) ==
    [exists |-> TRUE, js_rt_ptr |-> js, async_rt_ptr |-> async,
     parameter_buffer_ptr |-> buf]

\* An Instance handed out again to a second holder while it is still in use.
NewInstanceCached(made, live) == IF live > 0 THEN live ELSE made + 1

\* Instance::new: the Instance is a new one, whichever others are in use.
NewInstance(made, live) == made + 1

\* The entry point before its first call: calls made, whether one is running,
\* its runtime argument, the number of Instances that existed when it began,
\* what it returned.
NoEntry ==
    [calls |-> 0, running |-> FALSE, runtime |-> "none", base |-> 0,
     returned |-> NoResult]

\* No second WasmerHost: its Instance (0: none), its fields, its Instance's
\* memory and engine state, the operations run on it, the last one's outcome.
\* The mem and engine fields are the state of the second Instance; a
\* WasmerHost built on the first handle's Instance finds that Instance's.
NoPeer ==
    [instance |-> 0, handle |-> NoHandle, mem |-> <<>>, engine |-> <<>>,
     ops |-> 0, result |-> NoResult]

\* ------------------------------------------------------------------- Init
Init ==
    /\ boot = "start"
    /\ bootResult = NoResult
    /\ runtime = "none"
    /\ exports = {}
    /\ instances = 0
    /\ instance = 0
    /\ negotiated = <<>>
    /\ handle = NoHandle
    /\ mem = <<>>
    /\ engine = <<>>
    /\ lastCall = NoCall
    /\ numCalls = 0
    /\ pc = [c \in Callers |-> "idle"]
    /\ op = [c \in Callers |-> "none"]
    /\ input = [c \in Callers |-> <<>>]
    /\ params = [c \in Callers |-> NoParams]
    /\ req = [c \in Callers |-> <<>>]
    /\ ret = [c \in Callers |-> 0]
    /\ result = [c \in Callers |-> NoResult]
    /\ ops = [c \in Callers |-> 0]
    /\ entry = NoEntry
    /\ peer = NoPeer

\* ---------------------------------------------------------------- bootstrap
BootFail(e) ==
    /\ boot' = "failed"
    /\ bootResult' = Panic(e)

\* A lookup that falls back to some module when the name does not resolve.
RegistryLookupSubstitute ==
    /\ boot = "start"
    /\ \E name \in RuntimeNames, ex \in ExportSets :
         /\ runtime' = name
         /\ boot' = "module" /\ exports' = ex /\ UNCHANGED bootResult
    /\ UNCHANGED <<instances, instance, negotiated, handle, mem, engine, lastCall, numCalls>>
    /\ UNCHANGED <<pc, op, input, params, req, ret, result, ops, entry, peer>>

\* new_wasi_dev_instance: registry.get_module(runtime, &store).unwrap()
RegistryLookup ==
    /\ boot = "start"
    /\ \E name \in RuntimeNames, ex \in ExportSets :
         /\ runtime' = name
         /\ IF get_module(name)
            THEN boot' = "module" /\ exports' = ex /\ UNCHANGED bootResult
            ELSE BootFail("ArtifactNotFound") /\ UNCHANGED exports
    /\ UNCHANGED <<instances, instance, negotiated, handle, mem, engine, lastCall, numCalls>>
    /\ UNCHANGED <<callerVars, pathVars>>

\* new_wasi_dev_instance: Instance::new(&module, &import_object).unwrap()
Instantiate ==
    /\ boot = "module"
    /\ \E linked \in BOOLEAN :
         IF linked
         THEN /\ boot' = "instance"
              /\ instances' = instances + 1
              /\ instance' = NewInstance(instances, peer.instance)
              /\ mem' = ZeroMemory
              /\ UNCHANGED bootResult
         ELSE BootFail("InstantiationFailed")
              /\ UNCHANGED <<instances, instance, mem>>
    /\ UNCHANGED <<runtime, exports, negotiated, handle, engine, lastCall, numCalls>>
    /\ UNCHANGED <<callerVars, pathVars>>

\* One of new_wasi_dev's three get_function(name).unwrap() / call(&[]).unwrap()
\* pairs: the export is looked up, called, and its result kept.
BootCall(name, from, to, values) ==
    /\ boot = from
    /\ IF name \notin exports
       THEN BootFail("ExportMissing") /\ UNCHANGED <<negotiated, lastCall, numCalls>>
       ELSE /\ lastCall' = [name |-> name, args |-> <<>>, seen |-> <<>>]
            /\ numCalls' = numCalls + 1
            /\ \E trap \in BOOLEAN, v \in values :
                 IF trap
                 THEN BootFail("GuestTrap") /\ UNCHANGED negotiated
                 ELSE /\ negotiated' = (name :> v) @@ negotiated
                      /\ boot' = to
                      /\ bootResult' = IF to = "ready" THEN Ok(<<>>) ELSE bootResult

NewRuntimeCall ==
    /\ BootCall("new_runtime", "instance", "js", JsPtrs)
    /\ engine' = IF boot' = "js"
                 THEN (negotiated'["new_runtime"] :> <<>>) @@ engine
                 ELSE engine
    /\ UNCHANGED <<runtime, exports, instances, instance, handle, mem>>
    /\ UNCHANGED <<callerVars, pathVars>>

NewAsyncRuntimeCall ==
    /\ BootCall("new_async_runtime", "js", "async", AsyncPtrs)
    /\ UNCHANGED <<runtime, exports, instances, instance, handle, mem, engine>>
    /\ UNCHANGED <<callerVars, pathVars>>

\* A last bootstrap step that takes offset 0 when the export is missing.
ParameterBufferPtrCallOrDefault ==
    /\ IF "parameter_buffer_ptr" \notin exports
       THEN /\ boot = "async"
            /\ boot' = "ready"
            /\ bootResult' = Ok(<<>>)
            /\ handle' = NewHandle(negotiated["new_runtime"],
                                   negotiated["new_async_runtime"], 0)
            /\ UNCHANGED <<negotiated, lastCall, numCalls>>
       ELSE /\ BootCall("parameter_buffer_ptr", "async", "ready", BufferPtrs)
            /\ handle' = IF boot' = "ready"
                         THEN NewHandle(negotiated'["new_runtime"],
                                        negotiated'["new_async_runtime"],
                                        negotiated'["parameter_buffer_ptr"])
                         ELSE handle
    /\ UNCHANGED <<runtime, exports, instances, instance, mem, engine>>
    /\ UNCHANGED <<pc, op, input, params, req, ret, result, ops, entry, peer>>

ParameterBufferPtrCall ==
    /\ BootCall("parameter_buffer_ptr", "async", "ready", BufferPtrs)
    /\ handle' = IF boot' = "ready"
                 THEN NewHandle(negotiated'["new_runtime"],
                                negotiated'["new_async_runtime"],
                                negotiated'["parameter_buffer_ptr"])
                 ELSE handle
    /\ UNCHANGED <<runtime, exports, instances, instance, mem, engine>>
    /\ UNCHANGED <<callerVars, pathVars>>

\* --------------------------------------------------------------- operations
InFlight(c) == pc[c] \in {"written", "called"}

\* A method can be entered: the handle exists and the caller is not inside
\* another call.
RECURSIVE SumOver(_, _)
SumOver(f, S) ==
    IF S = {} THEN 0
    ELSE LET x == CHOOSE y \in S : TRUE IN f[x] + SumOver(f, S \ {x})

OpsStarted == SumOver(ops, Callers)

CanStart(c) == handle.exists /\ pc[c] = "idle" /\ OpsStarted < MaxOps

\* compile_to_bytecode takes &mut self: no other borrow of the handle is live.
Exclusive(c) == \A d \in Callers \ {c} : ~InFlight(d)

\* eval and run_module_function take &self: any number of them may hold the
\* handle at once, but not together with a &mut borrow.
Shared(c) == \A d \in Callers \ {c} : ~(InFlight(d) /\ op[d] = "compile")

\* An operation that stays where it is when it fails with an error value.
FinishHoldingOnError(c, r) ==
    /\ result' = [result EXCEPT ![c] = r]
    /\ pc' = [pc EXCEPT ![c] = IF r.kind = "panic" THEN "panicked"
                                ELSE IF r.kind = "err" THEN @ ELSE "idle"]

\* The operation returns r, or unwinds with it.
Finish(c, r) ==
    /\ result' = [result EXCEPT ![c] = r]
    /\ pc' = [pc EXCEPT ![c] = IF r.kind = "panic" THEN "panicked" ELSE "idle"]

Begin(c, name, arg) ==
    /\ op' = [op EXCEPT ![c] = name]
    /\ input' = [input EXCEPT ![c] = arg]
    /\ ops' = [ops EXCEPT ![c] = @ + 1]

\* The exported function is called: the call is logged with the request the
\* module finds in its buffer.
Call(name, args, len) ==
    /\ lastCall' = [name |-> name, args |-> args, seen |-> GuestRead(mem, len)]
    /\ numCalls' = numCalls + 1

\* compile_to_bytecode up to the call: get_memory("memory")?, slice_to_buffer,
\* get_function("compile_module")?
CompileStart(c) ==
    /\ CanStart(c) /\ Exclusive(c)
    /\ \E code \in Sources :
         LET w == slice_to_buffer(handle, mem, code)
         IN  /\ Begin(c, "compile", code)
             /\ IF "memory" \notin exports
                THEN Finish(c, Err("ExportMissing")) /\ UNCHANGED <<mem, req>>
                ELSE IF ~w.ok
                THEN Finish(c, Panic("MemoryAccessFault")) /\ UNCHANGED <<mem, req>>
                ELSE /\ mem' = w.buffer
                     /\ req' = [req EXCEPT ![c] = code]
                     /\ IF "compile_module" \notin exports
                        THEN Finish(c, Err("ExportMissing"))
                        ELSE /\ pc' = [pc EXCEPT ![c] = "written"]
                             /\ UNCHANGED result
    /\ UNCHANGED <<engine, lastCall, numCalls, params, ret>>
    /\ UNCHANGED <<bootVars, pathVars>>

\* compile_module_fn.call(&[async_rt_ptr, js_rt_ptr, source.len() as i32])?
CompileCall(c) ==
    /\ pc[c] = "written" /\ op[c] = "compile"
    /\ LET args == CompileArgs(handle, req[c])
       IN  /\ Call("compile_module", args, args[3])
           /\ \E out \in GuestOutcomes :
                IF out.trap \/ ~GuestCanRead(mem, args[3]) \/ ~GuestCanWrite(mem, out.resp)
                THEN Finish(c, Err("GuestTrap")) /\ UNCHANGED <<mem, ret>>
                ELSE /\ mem' = WriteAt(mem, GuestBuf, out.resp)
                     /\ ret' = [ret EXCEPT ![c] = out.n]
                     /\ pc' = [pc EXCEPT ![c] = "called"]
                     /\ UNCHANGED result
    /\ UNCHANGED <<engine, op, input, params, req, ops>>
    /\ UNCHANGED <<bootVars, pathVars>>

\* compile_to_bytecode after the call: the returned data is copied out.
CompileRead(c) ==
    /\ pc[c] = "called" /\ op[c] = "compile"
    /\ Finish(c, CompileReadBack(handle, mem, ret[c]))
    /\ UNCHANGED <<mem, engine, lastCall, numCalls, op, input, params, req, ret, ops>>
    /\ UNCHANGED <<bootVars, pathVars>>

\* eval up to the call: get_memory("memory").unwrap(),
\* get_function("run").unwrap(), slice_to_buffer
EvalStart(c) ==
    /\ CanStart(c) /\ Shared(c)
    /\ \E js \in Sources :
         LET w == slice_to_buffer(handle, mem, js)
         IN  /\ Begin(c, "eval", js)
             /\ IF "memory" \notin exports \/ "run" \notin exports
                THEN Finish(c, Panic("ExportMissing")) /\ UNCHANGED <<mem, req>>
                ELSE IF ~w.ok
                THEN Finish(c, Panic("MemoryAccessFault")) /\ UNCHANGED <<mem, req>>
                ELSE /\ mem' = w.buffer
                     /\ req' = [req EXCEPT ![c] = js]
                     /\ pc' = [pc EXCEPT ![c] = "written"]
                     /\ UNCHANGED result
    /\ UNCHANGED <<engine, lastCall, numCalls, params, ret>>
    /\ UNCHANGED <<bootVars, pathVars>>

\* js_rt_eval_fn.call(&[async_rt_ptr, js_rt_ptr, js_bytes.len() as i32]).unwrap():
\* the returned integer is dropped.
EvalCall(c) ==
    /\ pc[c] = "written" /\ op[c] = "eval"
    /\ LET args == EvalArgs(handle, req[c])
       IN  /\ Call("run", args, args[3])
           /\ \E trap \in BOOLEAN :
                IF trap \/ ~GuestCanRead(mem, args[3]) \/ args[2] \notin DOMAIN engine
                THEN Finish(c, Panic("GuestTrap")) /\ UNCHANGED engine
                ELSE /\ engine' = GuestRun(engine, args[2], GuestRead(mem, args[3]))
                     /\ Finish(c, Ok(<<>>))
    /\ UNCHANGED <<mem, op, input, params, req, ret, ops>>
    /\ UNCHANGED <<bootVars, pathVars>>

\* run_module_function up to the call: get_memory("memory").unwrap(),
\* get_function("run_module_function").unwrap(), set_rt, serialize,
\* slice_to_buffer
RmfStart(c) ==
    /\ CanStart(c) /\ Shared(c)
    /\ \E parameters \in ParamSet :
         LET serialized == RmfRequest(handle, parameters)
             w == slice_to_buffer(handle, mem, serialized)
         IN  /\ Begin(c, "rmf", parameters)
             /\ IF "memory" \notin exports \/ "run_module_function" \notin exports
                THEN /\ Finish(c, Panic("ExportMissing"))
                     /\ params' = [params EXCEPT ![c] = parameters]
                     /\ UNCHANGED <<mem, req>>
                ELSE /\ params' = [params EXCEPT ![c] = RmfParameters(handle, parameters)]
                     /\ IF ~w.ok
                        THEN Finish(c, Panic("MemoryAccessFault")) /\ UNCHANGED <<mem, req>>
                        ELSE /\ mem' = w.buffer
                             /\ req' = [req EXCEPT ![c] = serialized]
                             /\ pc' = [pc EXCEPT ![c] = "written"]
                             /\ UNCHANGED result
    /\ UNCHANGED <<engine, lastCall, numCalls, ret>>
    /\ UNCHANGED <<bootVars, pathVars>>

\* run_module_function.call(&[async_rt_ptr, serialized.len() as i32])?
RmfCall(c) ==
    /\ pc[c] = "written" /\ op[c] = "rmf"
    /\ LET args == RmfArgs(handle, req[c])
       IN  /\ Call("run_module_function", args, args[2])
           /\ \E out \in GuestOutcomes :
                IF out.trap \/ ~GuestCanRead(mem, args[2]) \/ ~GuestCanWrite(mem, out.resp)
                THEN Finish(c, Err("GuestTrap")) /\ UNCHANGED <<mem, ret>>
                ELSE /\ mem' = WriteAt(mem, GuestBuf, out.resp)
                     /\ ret' = [ret EXCEPT ![c] = out.n]
                     /\ pc' = [pc EXCEPT ![c] = "called"]
                     /\ UNCHANGED result
    /\ UNCHANGED <<engine, op, input, params, req, ops>>
    /\ UNCHANGED <<bootVars, pathVars>>

\* run_module_function after the call: read_returned_value, String::from_utf8
RmfRead(c) ==
    /\ pc[c] = "called" /\ op[c] = "rmf"
    /\ Finish(c, RmfReadBack(handle, mem, ret[c]))
    /\ UNCHANGED <<mem, engine, lastCall, numCalls, op, input, params, req, ret, ops>>
    /\ UNCHANGED <<bootVars, pathVars>>

\* ----------------------------------------------------------- specifications
Bootstrap ==
    \/ RegistryLookup
    \/ Instantiate
    \/ NewRuntimeCall
    \/ NewAsyncRuntimeCall
    \/ ParameterBufferPtrCall

CallerStep(c) ==
    \/ CompileStart(c)
    \/ CompileCall(c)
    \/ CompileRead(c)
    \/ EvalStart(c)
    \/ EvalCall(c)
    \/ RmfStart(c)
    \/ RmfCall(c)
    \/ RmfRead(c)

\* Callers that share the handle by reference, as its methods' signatures allow.
Next == Bootstrap \/ \E c \in Callers : CallerStep(c)
Spec == Init /\ [][Next]_vars

\* One owner: an operation starts only when none is in progress.
SeqStep(c) ==
    \/ Exclusive(c) /\ CompileStart(c)
    \/ Exclusive(c) /\ CompileCall(c)
    \/ Exclusive(c) /\ CompileRead(c)
    \/ Exclusive(c) /\ EvalStart(c)
    \/ Exclusive(c) /\ EvalCall(c)
    \/ Exclusive(c) /\ RmfStart(c)
    \/ Exclusive(c) /\ RmfCall(c)
    \/ Exclusive(c) /\ RmfRead(c)

NextSeq == Bootstrap \/ \E c \in Callers : SeqStep(c)
SeqSpec == Init /\ [][NextSeq]_vars

\* ---------------------------------------------------------- the entry point
\* The thread that calls the entry point.
EntryCaller == "a"

\* pub fn compile_to_bytecode(runtime, js) is entered.
EntryCall ==
    /\ ~entry.running /\ entry.calls < MaxOps
    /\ \E name \in RuntimeNames :
         entry' = [calls |-> entry.calls + 1, running |-> TRUE, runtime |-> name,
                   base |-> instances, returned |-> NoResult]
    /\ UNCHANGED <<bootVars, callerVars, mem, engine, lastCall, numCalls, peer>>

\* What the caller's thread holds once the call has returned or unwound.
EntryCallerLeaves ==
    /\ pc' = [pc EXCEPT ![EntryCaller] = "idle"]
    /\ op' = [op EXCEPT ![EntryCaller] = "none"]
    /\ input' = [input EXCEPT ![EntryCaller] = <<>>]
    /\ req' = [req EXCEPT ![EntryCaller] = <<>>]
    /\ ret' = [ret EXCEPT ![EntryCaller] = 0]
    /\ result' = [result EXCEPT ![EntryCaller] = NoResult]
    /\ ops' = [ops EXCEPT ![EntryCaller] = 0]
    /\ UNCHANGED params

\* The entry point's one method call is over, or new_wasi_dev has panicked.
EntryOver ==
    /\ entry.running
    /\ \/ boot = "failed"
       \/ ops[EntryCaller] = 1 /\ pc[EntryCaller] \in {"idle", "panicked"}

EntryReturned ==
    [entry EXCEPT !.running = FALSE,
                  !.returned = IF boot = "failed" THEN bootResult
                               ELSE result[EntryCaller]]

\* An entry point that keeps its WasmerHost for the next call.
EntryReturnKeeping ==
    /\ EntryOver
    /\ entry' = EntryReturned
    /\ EntryCallerLeaves
    /\ UNCHANGED <<bootVars, mem, engine, lastCall, numCalls, peer>>

\* The entry point returns rt.compile_to_bytecode's result and drops rt, the
\* WasmerHost and its Instance with it.
EntryReturn ==
    /\ EntryOver
    /\ entry' = EntryReturned
    /\ EntryCallerLeaves
    /\ boot' = "start" /\ bootResult' = NoResult
    /\ runtime' = "none" /\ exports' = {}
    /\ instance' = 0 /\ negotiated' = <<>> /\ handle' = NoHandle
    /\ mem' = <<>> /\ engine' = <<>>
    /\ lastCall' = NoCall /\ numCalls' = 0
    /\ UNCHANGED <<instances, peer>>

\* let mut rt = WasmerHost::new_wasi_dev(runtime); rt.compile_to_bytecode(..)
EntryStep ==
    \/ entry.running /\ RegistryLookup /\ runtime' = entry.runtime
    \/ entry.running /\ Instantiate
    \/ entry.running /\ NewRuntimeCall
    \/ entry.running /\ NewAsyncRuntimeCall
    \/ entry.running /\ ParameterBufferPtrCall
    \/ entry.running /\ ops[EntryCaller] = 0 /\ CompileStart(EntryCaller)
    \/ entry.running /\ CompileCall(EntryCaller)
    \/ entry.running /\ CompileRead(EntryCaller)

NextEntry == EntryCall \/ EntryStep \/ EntryReturn
EntrySpec == Init /\ [][NextEntry]_vars

\* ---------------------------------------------------------- a second handle
\* The thread that owns the first handle.
Owner == "a"

\* The second handle is built on the Instance the first one holds.
PeerShares == peer.instance > 0 /\ peer.instance = instance

\* Memory and engine state of the Instance the second handle holds.
PeerMem == IF PeerShares THEN mem ELSE peer.mem
PeerEngine == IF PeerShares THEN engine ELSE peer.engine

\* Operations started on either handle.
BothStarted == OpsStarted + peer.ops
Budget == BothStarted < MaxOps

\* An operation on the second handle leaves its Instance with memory m and
\* engine state e, and returns or unwinds with r.
PeerLeaves(m, e, r) ==
    IF PeerShares
    THEN /\ mem' = m /\ engine' = e
         /\ peer' = [peer EXCEPT !.ops = @ + 1, !.result = r]
    ELSE /\ peer' = [peer EXCEPT !.mem = m, !.engine = e, !.ops = @ + 1,
                                 !.result = r]
         /\ UNCHANGED <<mem, engine>>

\* WasmerHost::new_wasi_dev for the second handle, on a module with every
\* export: a new Instance, and the three bootstrap calls on it.
PeerBootstrap ==
    /\ peer.instance = 0
    /\ \E js \in JsPtrs, async \in AsyncPtrs, buf \in BufferPtrs :
         LET id == NewInstance(instances, instance)
         IN  /\ peer' = [instance |-> id, handle |-> NewHandle(js, async, buf),
                         mem |-> ZeroMemory, engine |-> (js :> <<>>),
                         ops |-> 0, result |-> NoResult]
             /\ instances' = instances + 1
    /\ UNCHANGED <<boot, bootResult, runtime, exports, instance, negotiated, handle>>
    /\ UNCHANGED <<mem, engine, lastCall, numCalls, callerVars, entry>>

\* compile_to_bytecode on the second handle, from its write to its read.
PeerCompile ==
    /\ peer.handle.exists /\ Budget
    /\ \E code \in Sources, out \in GuestOutcomes :
         LET h == peer.handle
             w == slice_to_buffer(h, PeerMem, code)
             args == CompileArgs(h, code)
             buf == AsU32(h.parameter_buffer_ptr)
             served == /\ ~out.trap
                       /\ buf + AsU32(args[3]) <= Len(w.buffer)
                       /\ buf + Len(out.resp) <= Len(w.buffer)
             after == WriteAt(w.buffer, buf, out.resp)
         IN  IF ~w.ok
             THEN PeerLeaves(PeerMem, PeerEngine, Panic("MemoryAccessFault"))
             ELSE IF ~served
             THEN PeerLeaves(w.buffer, PeerEngine, Err("GuestTrap"))
             ELSE PeerLeaves(after, PeerEngine, CompileReadBack(h, after, out.n))
    /\ UNCHANGED <<bootVars, callerVars, lastCall, numCalls, entry>>

\* eval on the second handle, from its write to the end of the call.
PeerEval ==
    /\ peer.handle.exists /\ Budget
    /\ \E js \in Sources, trap \in BOOLEAN :
         LET h == peer.handle
             w == slice_to_buffer(h, PeerMem, js)
             args == EvalArgs(h, js)
             buf == AsU32(h.parameter_buffer_ptr)
             served == /\ ~trap
                       /\ buf + AsU32(args[3]) <= Len(w.buffer)
                       /\ args[2] \in DOMAIN PeerEngine
             seen == Window(w.buffer, buf, buf + AsU32(args[3]))
         IN  IF ~w.ok
             THEN PeerLeaves(PeerMem, PeerEngine, Panic("MemoryAccessFault"))
             ELSE IF ~served
             THEN PeerLeaves(w.buffer, PeerEngine, Panic("GuestTrap"))
             ELSE PeerLeaves(w.buffer, GuestRun(PeerEngine, args[2], seen), Ok(<<>>))
    /\ UNCHANGED <<bootVars, callerVars, lastCall, numCalls, entry>>

\* Two handles, each with its own owner; the owners run side by side.
TwoStep ==
    \/ Budget /\ CompileStart(Owner)
    \/ CompileCall(Owner)
    \/ CompileRead(Owner)
    \/ Budget /\ EvalStart(Owner)
    \/ EvalCall(Owner)
    \/ Budget /\ RmfStart(Owner)
    \/ RmfCall(Owner)
    \/ RmfRead(Owner)

NextTwo == Bootstrap \/ TwoStep \/ PeerBootstrap \/ PeerCompile \/ PeerEval
TwoSpec == Init /\ [][NextTwo]_vars

\* ------------------------------------------------------------------- claims
\* The step is caller c entering an operation.
Starts(c) == ops'[c] = ops[c] + 1
\* The step is caller c's exported call (for the operation it has in progress).
Calls(c) == pc[c] = "written" /\ pc'[c] # "written"
\* The step is caller c's read of the response.
Reads(c) == pc[c] = "called" /\ pc'[c] # "called"

\* The offset and the engine pointers the module handed out at bootstrap.
BufferOffset == negotiated["parameter_buffer_ptr"]
ScriptEngine == negotiated["new_runtime"]
AsyncEngine == negotiated["new_async_runtime"]

\* The u32 that four bytes encode, least significant byte first.
FromU32LE(b) == b[1] + ByteBase * b[2] + ByteBase * ByteBase * b[3]
                + ByteBase * ByteBase * ByteBase * b[4]

\* The n bytes of buffer that follow the buffer offset.
BytesAt(buffer, n) == [i \in 1 .. n |-> buffer[BufferOffset + i]]

\* C1: at most one operation of a handle is between its request write and
\* its response read at any time.
C1_MutualExclusion ==
    \A c, d \in Callers : InFlight(c) /\ InFlight(d) => c = d

Payload(c) ==
    IF op'[c] = "rmf"
    THEN Serialize([input'[c] EXCEPT !.rt = AsU32(ScriptEngine)])
    ELSE input'[c]

\* The payload does not fit in the memory that remains after the offset.
Oversize(c) ==
    \/ AsUsize(BufferOffset) > Len(mem)
    \/ Len(Payload(c)) > Len(mem) - AsUsize(BufferOffset)

\* The exports the operation looks up before it writes are there.
LookupsBeforeWrite(c) ==
    /\ "memory" \in exports
    /\ op'[c] = "eval" => "run" \in exports
    /\ op'[c] = "rmf" => "run_module_function" \in exports

\* C3: an operation whose request exceeds the memory left after the buffer
\* offset fails, with a memory-access fault when its exports are there, and
\* has written nothing to memory and called no export.
C3_OversizeFails ==
    [][\A c \in Callers :
        (Starts(c) /\ Oversize(c))
           => /\ result'[c].kind \in {"err", "panic"}
              /\ ~InFlight(c)'
              /\ LookupsBeforeWrite(c) => result'[c].err = "MemoryAccessFault"
              /\ mem' = mem
              /\ numCalls' = numCalls /\ lastCall' = lastCall
    ]_vars

\* C3 witness: with a valid offset, a request longer than the memory behind
\* it ended in a memory-access fault.
C3_Witness ==
    \E c \in Callers :
        /\ op[c] \in {"compile", "eval"}
        /\ result[c].err = "MemoryAccessFault"
        /\ handle.parameter_buffer_ptr > 0
        /\ Len(input[c]) > Len(mem) - handle.parameter_buffer_ptr
        /\ Len(input[c]) <= Len(mem)

\* C4: the request run_module_function writes carries the handle's
\* js_rt_ptr in its engine-pointer field, whatever the caller supplied, and
\* the caller's other field as supplied.
C4_RequestCarriesEngine ==
    [][\A c \in Callers :
        (Starts(c) /\ op'[c] = "rmf" /\ pc'[c] = "written")
           => LET b == BytesAt(mem', 5)
              IN  /\ FromU32LE(b) = handle.js_rt_ptr % Pow2(IntBits)
                  /\ AsI32(FromU32LE(b)) = handle.js_rt_ptr
                  /\ b[5] = input'[c].function
                  /\ req'[c] = b
                  /\ params'[c].rt = FromU32LE(b)
    ]_vars

\* C4 witness: a request was written for parameters that carried another
\* engine pointer.
C4_Witness ==
    \E c \in Callers :
        /\ op[c] = "rmf" /\ pc[c] = "written"
        /\ input[c].rt # AsU32(handle.js_rt_ptr)
        /\ input[c].rt # 0

BootstrapExports == {"new_runtime", "new_async_runtime", "parameter_buffer_ptr"}
OperationExports == {"compile_module", "run", "run_module_function"}

\* C5: an operation is invoked only on a handle, a handle exists only after
\* all three bootstrap calls succeeded, and a failed bootstrap leaves none.
C5_NoPartialHandle ==
    /\ handle.exists
          => /\ boot = "ready" /\ bootResult.kind = "ok"
             /\ DOMAIN negotiated = BootstrapExports
             /\ instances = 1
    /\ boot = "failed" => ~handle.exists /\ bootResult.kind \in {"err", "panic"}
    /\ \A c \in Callers :
          (ops[c] > 0 \/ pc[c] # "idle" \/ op[c] # "none")
             => handle.exists /\ DOMAIN negotiated = BootstrapExports
    /\ lastCall.name \in OperationExports => handle.exists

\* C5 witness: an operation is under way on a bootstrapped handle.
C5_Witness ==
    /\ handle.exists
    /\ \E c \in Callers : pc[c] = "written"

\* C6: every failure of bootstrap or of an operation reaches the caller as
\* an error value: none unwinds out of the call.
C6_FailuresAreTyped ==
    /\ bootResult.kind # "panic"
    /\ \A c \in Callers : result[c].kind # "panic" /\ pc[c] # "panicked"

\* C7: bootstrap with a runtime name the registry cannot resolve ends with
\* ArtifactNotFound; no Instance was created and no export was called.
C7_UnknownRuntime ==
    (boot # "start" /\ runtime \notin KnownRuntimes)
       => /\ boot = "failed"
          /\ bootResult.kind \in {"err", "panic"}
          /\ bootResult.err = "ArtifactNotFound"
          /\ instances = 0
    /\ instance = 0
          /\ numCalls = 0 /\ lastCall = NoCall
          /\ negotiated = <<>>
          /\ ~handle.exists
          /\ mem = <<>>

\* C7 witness: bootstrap was given the unknown name and has ended.
C7_Witness ==
    /\ runtime = "does-not-exist"
    /\ boot = "failed"

\* C8: once the handle exists its three values are the ones the module
\* returned at bootstrap and never change; every exported call passes them
\* and every buffer write and read is at that offset.
C8_NegotiatedValuesFixed ==
    [][/\ handle'.exists
            => /\ handle'.js_rt_ptr = negotiated'["new_runtime"]
               /\ handle'.async_rt_ptr = negotiated'["new_async_runtime"]
               /\ handle'.parameter_buffer_ptr = negotiated'["parameter_buffer_ptr"]
       /\ handle.exists
            => /\ handle' = handle /\ negotiated' = negotiated
               /\ \A c \in Callers :
                    /\ (Starts(c) /\ pc'[c] = "written")
                          => BytesAt(mem', Len(req'[c])) = req'[c]
                    /\ (Calls(c) /\ op[c] \in {"compile", "eval"})
                          => /\ Len(lastCall'.args) = 3
                             /\ lastCall'.args[1] = AsyncEngine
                             /\ lastCall'.args[2] = ScriptEngine
                    /\ (Calls(c) /\ op[c] = "rmf")
                          => /\ Len(lastCall'.args) = 2
                             /\ lastCall'.args[1] = AsyncEngine
                    /\ (Reads(c) /\ result'[c].kind = "ok")
                          => result'[c].val = BytesAt(mem, ret[c])
    ]_vars

\* C8 witness: on one handle an operation has failed and another succeeded.
C8_Witness ==
    /\ handle.exists
    /\ \E c, d \in Callers :
          /\ result[c].kind = "ok" /\ Len(result[c].val) > 0
          /\ result[d].kind \in {"err", "panic"}

\* C9: used by one owner, every eval calls run on the one Instance with the
\* handle's js_rt_ptr; a returned call leaves that engine's state extended
\* by the text just run and gives the caller no value; nothing else changes
\* the engine state, and run_module_function's request names the same engine.
C9_EngineStateAccumulates ==
    [][handle.exists
         => /\ instances' = instances
            /\ \A c \in Callers :
                 /\ (Calls(c) /\ op[c] = "eval")
                       => /\ lastCall'.name = "run"
                          /\ lastCall'.args[2] = ScriptEngine
                          /\ result'[c].kind = "ok"
                                => /\ result'[c].val = <<>>
                                   /\ engine'[ScriptEngine]
                                        = Append(engine[ScriptEngine], input[c])
                          /\ result'[c].kind # "ok" => engine' = engine
                 /\ (Calls(c) /\ op[c] = "rmf")
                       => /\ Len(lastCall'.seen) = 5
                          /\ AsI32(FromU32LE(lastCall'.seen)) = ScriptEngine
            /\ (\A c \in Callers : ~(Calls(c) /\ op[c] = "eval")) => engine' = engine
    ]_vars

\* C9 witness: the engine holds the texts of two evals, in order.
C9_Witness ==
    /\ handle.exists
    /\ Len(engine[handle.js_rt_ptr]) = 2
    /\ \E c \in Callers : op[c] = "eval" /\ result[c].kind = "ok"
                          /\ engine[handle.js_rt_ptr][2] = input[c]

\* The lifecycle state of the Instance.
Life ==
    IF ~handle.exists THEN "Uninitialized"
    ELSE IF \E c \in Callers : InFlight(c) THEN "CallInFlight"
    ELSE "Idle"

LifeTransitions ==
    {<<"Uninitialized", "Uninitialized">>, <<"Uninitialized", "Idle">>,
     <<"Idle", "Idle">>, <<"Idle", "CallInFlight">>,
     <<"CallInFlight", "CallInFlight">>, <<"CallInFlight", "Idle">>}

\* C10: the Instance moves only Uninitialized -> Idle <-> CallInFlight; the
\* handshake is never run again on a bootstrapped Instance; every exported
\* call of an operation takes that operation out of its written state, to
\* its end when the call traps or the operation is eval, else to the read
\* that ends it; an operation in flight can always take its next step.
C10_Lifecycle ==
    [][/\ <<Life, Life'>> \in LifeTransitions
       /\ handle.exists
            => /\ handle'.exists /\ boot' = boot
               /\ negotiated' = negotiated /\ instances' = instances
               /\ numCalls' # numCalls
                     => /\ lastCall'.name \in OperationExports
                        /\ \E c \in Callers : Calls(c)
       /\ \A c \in Callers :
            /\ Calls(c)
                  => \/ /\ pc'[c] = "called" /\ op[c] \in {"compile", "rmf"}
                        /\ result'[c] = result[c]
                     \/ /\ pc'[c] \in {"idle", "panicked"}
                        /\ result'[c].kind \in {"ok", "err", "panic"}
            /\ (Calls(c) /\ op[c] = "eval") => ~InFlight(c)'
            /\ Reads(c) => ~InFlight(c)'
            /\ InFlight(c) => ENABLED CallerStep(c)
    ]_vars

\* C10 witness: an operation whose exported call trapped has ended and the
\* Instance is idle again.
C10_Witness ==
    /\ Life = "Idle"
    /\ \E c \in Callers : result[c].err = "GuestTrap" /\ ~InFlight(c)

\* The bytes are text: every lead byte is followed by a continuation byte and
\* every continuation byte follows a lead byte.
IsText(b) ==
    \A i \in 1 .. Len(b) :
        /\ IsLead(b[i]) => i < Len(b) /\ IsCont(b[i + 1])
        /\ IsCont(b[i]) => i > 1 /\ IsLead(b[i - 1])

\* The n bytes after the buffer offset lie inside the memory.
ResponseInMemory(n) ==
    /\ n >= 0 /\ BufferOffset >= 0
    /\ BufferOffset + n <= Len(mem)

\* C11: run_module_function calls its export with (async_rt_ptr,
\* len(serialized)); with n the export's result, it returns the n bytes at
\* [offset, offset + n) when they are text, and fails with a decoding error,
\* returning nothing, when they are not.
C11_RmfReturnsText ==
    [][\A c \in Callers :
        /\ (Calls(c) /\ op[c] = "rmf")
              => /\ lastCall'.name = "run_module_function"
                 /\ lastCall'.args = <<AsyncEngine, Len(req[c])>>
                 /\ Len(req[c]) = 5
        /\ (Reads(c) /\ op[c] = "rmf" /\ ResponseInMemory(ret[c]))
              => IF IsText(BytesAt(mem, ret[c]))
                 THEN result'[c] = [kind |-> "ok", val |-> BytesAt(mem, ret[c]),
                                    err |-> "none"]
                 ELSE /\ result'[c].kind \in {"err", "panic"}
                      /\ result'[c].err = "SerializationError"
                      /\ result'[c].val = <<>>
        /\ (Reads(c) /\ op[c] = "rmf" /\ result'[c].kind = "ok")
              => ResponseInMemory(ret[c])
    ]_vars

\* C11 witness: one run_module_function returned a text and another failed
\* on bytes that are no text.
C11_Witness ==
    \E c, d \in Callers :
        /\ op[c] = "rmf" /\ pc[c] = "idle" /\ result[c].kind = "ok"
        /\ Len(result[c].val) > 0
        /\ op[d] = "rmf" /\ result[d].err = "SerializationError"

\* The step is the entry point's method call starting.
EntryCompiles == entry.running /\ Starts(EntryCaller)

\* The step is the entry point returning or unwinding.
EntryEnds == entry.running /\ ~entry'.running

\* C12: every call of the public entry point compile_to_bytecode(runtime,
\* source) bootstraps a fresh Instance for runtime and performs exactly one
\* compile call on it; no Instance, handle or buffer content is carried from
\* one call of the entry point to the next.
C12_EntryPointFresh ==
    [][/\ EntryCompiles
          => /\ op'[EntryCaller] = "compile"
             /\ runtime = entry.runtime
             /\ instances = entry.base + 1
             /\ instance > entry.base
             /\ mem = ZeroMemory
             /\ numCalls = 3
       /\ EntryEnds
          => /\ boot # "failed"
                => ops[EntryCaller] = 1 /\ op[EntryCaller] = "compile"
             /\ boot = "failed" => ops[EntryCaller] = 0
             /\ ~handle'.exists /\ instance' = 0
             /\ mem' = <<>> /\ engine' = <<>>
       /\ (~entry.running /\ entry'.running)
          => ~handle.exists /\ boot = "start" /\ mem = <<>>
      ]_vars

\* C12 witness: the entry point's second call has returned bytecode, after a
\* first call that also reached the module.
C12_Witness ==
    /\ entry.calls = 2 /\ ~entry.running
    /\ entry.returned.kind = "ok" /\ Len(entry.returned.val) > 0
    /\ instances = 2

\* Both handles have been bootstrapped.
TwoHandles == handle.exists /\ peer.handle.exists

\* The step is an operation on the second handle.
PeerOperates == peer'.ops = peer.ops + 1

\* The step belongs to an operation on the first handle.
OwnerOperates == Starts(Owner) \/ Calls(Owner) \/ Reads(Owner)

\* C13: for two independently bootstrapped handles, any interleaving of
\* operations on one leaves the other's linear memory, buffer offset and
\* engine handles unchanged: the two share no mutable state.
C13_HandlesIsolated ==
    [][TwoHandles
         => /\ peer.instance # instance
            /\ PeerOperates
                 => /\ mem' = mem /\ engine' = engine
                    /\ handle' = handle /\ negotiated' = negotiated
            /\ OwnerOperates
                 => /\ PeerMem' = PeerMem /\ PeerEngine' = PeerEngine
                    /\ peer'.handle = peer.handle
      ]_vars

\* C13 witness: each handle has run an operation that wrote into its memory
\* while the other existed, both at the same buffer offset, and the two
\* memories differ.
C13_Witness ==
    /\ TwoHandles
    /\ ops[Owner] = 1 /\ result[Owner].kind = "ok" /\ pc[Owner] = "idle"
    /\ peer.ops = 1 /\ peer.result.kind = "ok"
    /\ peer.handle.parameter_buffer_ptr = handle.parameter_buffer_ptr
    /\ peer.mem # mem /\ peer.mem # ZeroMemory /\ mem # ZeroMemory

\* The last argument of the export call made in this step: the length.
LengthArgument == lastCall'.args[Len(lastCall'.args)]

\* C14: in every operation the length argument passed to the exported
\* function equals the number of request bytes the host wrote at the buffer
\* offset, for every payload that fits in linear memory, lengths at or above
\* 2^31 included.
C14_LengthArgumentExact ==
    [][\A c \in Callers :
         Calls(c) => LengthArgument = Len(req[c])
      ]_vars

\* The length n the export returned does not describe bytes of the memory
\* after the buffer offset.
ResponseOutside(n) == n < 0 \/ BufferOffset + n > Len(mem)

\* C15: when the export returns a length n that is negative or for which
\* buffer offset + n exceeds the size of linear memory, compile_to_bytecode
\* and run_module_function fail and return no data; what they return on
\* success is n bytes long and lies inside [buffer offset, memory size).
C15_ResponseLengthChecked ==
    [][\A c \in Callers :
         (Reads(c) /\ op[c] \in {"compile", "rmf"})
           => /\ ResponseOutside(ret[c])
                   => /\ result'[c].kind \in {"err", "panic"}
                      /\ result'[c].val = <<>>
              /\ result'[c].kind = "ok"
                   => /\ BufferOffset >= 0 /\ ret[c] >= 0
                      /\ BufferOffset + ret[c] <= Len(mem)
                      /\ Len(result'[c].val) = ret[c]
                      /\ \A i \in 1 .. ret[c] :
                           result'[c].val[i] = mem[BufferOffset + i]
      ]_vars

\* C15 witness: a run_module_function whose export returned a negative
\* length and a compile_to_bytecode whose export returned a length beyond the
\* memory have both failed.
C15_Witness ==
    \E c, d \in Callers :
        /\ op[c] = "rmf" /\ pc[c] = "panicked" /\ ret[c] < 0
        /\ result[c].err = "MemoryAccessFault"
        /\ op[d] = "compile" /\ pc[d] = "panicked"
        /\ ret[d] > 0 /\ BufferOffset >= 0 /\ BufferOffset + ret[d] > Len(mem)

\* The exported function each operation calls.
NeededExport(name) ==
    IF name = "compile" THEN "compile_module"
    ELSE IF name = "eval" THEN "run"
    ELSE "run_module_function"

\* C16: in each of the three operations, when the exported function the
\* operation needs or the "memory" export is absent, the operation fails
\* before it writes any byte to the buffer: memory is unchanged on that error.
C16_AbsentExportWritesNothing ==
    [][\A c \in Callers :
         (Starts(c) /\ ("memory" \notin exports
                        \/ NeededExport(op'[c]) \notin exports))
           => /\ result'[c].kind \in {"err", "panic"}
              /\ pc'[c] # "written"
              /\ mem' = mem
      ]_vars

\* C17: run_module_function changes the caller's parameters object only in
\* its engine-pointer field: once the call is over, whether it succeeded or
\* the export trapped, that field is the handle's js_rt_ptr and every other
\* field is as the caller supplied it.
C17_OnlyEnginePointerSet ==
    [][\A c \in Callers :
        /\ (Starts(c) /\ op'[c] = "rmf" /\ LookupsBeforeWrite(c))
              => /\ params'[c].rt = handle.js_rt_ptr % Pow2(IntBits)
                 /\ AsI32(params'[c].rt) = handle.js_rt_ptr
                 /\ params'[c].function = input'[c].function
                 /\ DOMAIN params'[c] = DOMAIN input'[c]
        /\ (op[c] = "rmf" /\ (Calls(c) \/ Reads(c)))
              => params'[c] = params[c]
    ]_vars

\* C17 witness: one run_module_function has returned a text and another has
\* ended in a trap of the export, both for parameters that carried another
\* engine pointer.
C17_Witness ==
    \E c, d \in Callers :
        /\ op[c] = "rmf" /\ pc[c] = "idle" /\ result[c].kind = "ok"
        /\ op[d] = "rmf" /\ pc[d] = "idle" /\ result[d].err = "GuestTrap"
        /\ input[c].rt # params[c].rt /\ input[d].rt # params[d].rt
        /\ params[c].function = input[c].function

====
